---------------------------- MODULE Spec2Model ----------------------------
(***************************************************************************)
(* State-machine model of the RAG engine of backend/rag_engine.py and of   *)
(* the request layer of backend/main.py.                                   *)
(*                                                                         *)
(* Strings are sequences of one-character strings, so that str.split,      *)
(* str.join, str.strip, str.endswith and f-string formatting are computed  *)
(* character by character and not assumed.                                 *)
(***************************************************************************)
EXTENDS Integers, Sequences, FiniteSets, TLC

(***************************************************************************)
(* Bounds of the model.                                                    *)
(***************************************************************************)
\* longest text handed to chunk_text by the chunker harness
MaxTextLen == 4
\* largest chunk_size handed to chunk_text by the chunker harness
MaxChunkArg == 3

(***************************************************************************)
(* Strings: str.split(), " ".join(), str.strip(), str(int)                 *)
(***************************************************************************)
\* the characters str.split() and str.strip() treat as whitespace
Whitespace == {" ", "\t", "\n", "\r", "\f"}

IsSpace(c) == c \in Whitespace

Min(a, b) == IF a <= b THEN a ELSE b

\* last position of the maximal whitespace-free run that starts at j
RECURSIVE WordEnd(_, _)
WordEnd(text, j) ==
    IF j = Len(text) \/ IsSpace(text[j + 1]) THEN j ELSE WordEnd(text, j + 1)

IsWordStart(text, j) ==
    /\ ~IsSpace(text[j])
    /\ (j = 1 \/ IsSpace(text[j - 1]))

\* the words that start at positions lo..hi of text, in order
RECURSIVE WordsFrom(_, _, _)
WordsFrom(text, lo, hi) ==
    IF lo > hi THEN << >>
    ELSE IF lo = hi
         THEN IF IsWordStart(text, lo)
              THEN << SubSeq(text, lo, WordEnd(text, lo)) >>
              ELSE << >>
         ELSE LET mid == (lo + hi) \div 2
              IN  WordsFrom(text, lo, mid) \o WordsFrom(text, mid + 1, hi)

\* text.split(): the maximal runs of non-whitespace characters, in order
Split(text) == WordsFrom(text, 1, Len(text))

\* sep.join(parts[lo..hi])
RECURSIVE JoinRange(_, _, _, _)
JoinRange(sep, parts, lo, hi) ==
    IF lo > hi THEN << >>
    ELSE IF lo = hi THEN parts[lo]
         ELSE LET mid == (lo + hi) \div 2
              IN  JoinRange(sep, parts, lo, mid) \o sep
                      \o JoinRange(sep, parts, mid + 1, hi)

\* sep.join(parts)
Join(sep, parts) == JoinRange(sep, parts, 1, Len(parts))

RECURSIVE LStrip(_)
LStrip(s) ==
    IF s # << >> /\ IsSpace(Head(s)) THEN LStrip(Tail(s)) ELSE s

RECURSIVE RStrip(_)
RStrip(s) ==
    IF s # << >> /\ IsSpace(s[Len(s)])
    THEN RStrip(SubSeq(s, 1, Len(s) - 1))
    ELSE s

\* s.strip()
Strip(s) == RStrip(LStrip(s))

Digit(d) == <<"0", "1", "2", "3", "4", "5", "6", "7", "8", "9">>[d + 1]

\* str(n) for n >= 0, as an f-string formats an int
RECURSIVE Decimal(_)
Decimal(n) ==
    IF n < 10 THEN << Digit(n) >>
    ELSE Decimal(n \div 10) \o << Digit(n % 10) >>

(***************************************************************************)
(* RAGEngine.chunk_text                                                    *)
(***************************************************************************)
\* default of the chunk_size parameter
DefaultChunkSize == 512

\* a slice that stops one element early: words[i:i + chunk_size - 1]
SliceShort(seq, i, n) == SubSeq(seq, i + 1, Min(i + n, Len(seq)) - 1)

\* words[i:i + chunk_size], i counted from 0 as in Python
Slice(seq, i, n) == SubSeq(seq, i + 1, Min(i + n, Len(seq)))

\* a loop that keeps only the full windows and drops the shorter last one
RECURSIVE ChunkLoopFullOnly(_, _, _, _)
ChunkLoopFullOnly(words, i, chunk_size, chunks) ==
    IF i + chunk_size > Len(words) THEN chunks
    ELSE ChunkLoopFullOnly(words, i + chunk_size, chunk_size,
             Append(chunks, Join(<<" ">>, SubSeq(words, i + 1, i + chunk_size))))

\* the loop of chunk_text from index i on, chunks being the list built so far
RECURSIVE ChunkLoop(_, _, _, _)
ChunkLoop(words, i, chunk_size, chunks) ==
    IF i >= Len(words) THEN chunks
    ELSE LET chunk == Join(<<" ">>, Slice(words, i, chunk_size))
         IN  ChunkLoop(words, i + chunk_size, chunk_size,
                       IF Strip(chunk) # << >>
                       THEN Append(chunks, Strip(chunk))
                       ELSE chunks)

chunk_text(text, chunk_size) == ChunkLoop(Split(text), 0, chunk_size, << >>)

(***************************************************************************)
(* The data directory: corpora the engine may be started on                *)
(***************************************************************************)
\* number of one-word files of the large corpus
LargeFiles == 203
\* directories of at most this many files are listed in every order
MaxShuffled == 4

txt == <<".", "t", "x", "t">>
md == <<".", "m", "d">>
policy_txt == <<"p", "o", "l", "i", "c", "y">> \o txt

\* s.endswith(suffix)
endswith(s, suffix) ==
    /\ Len(s) >= Len(suffix)
    /\ SubSeq(s, Len(s) - Len(suffix) + 1, Len(s)) = suffix

\* filename.endswith(('.txt', '.md'))
Eligible(filename) == endswith(filename, txt) \/ endswith(filename, md)

\* n one-character words: "1", "2", ... "9", "0", "1", ...
Words(n) == [k \in 1..n |-> << Digit(k % 10) >>]

\* a file of the data directory; nwords is the number of words of content
File(name, content, nwords) ==
    [name |-> name, content |-> content, nwords |-> nwords]

CorpusEmpty == << >>

\* eligible and ineligible files, odd whitespace, a file holding no word
CorpusMixed ==
    << File(<<"a">> \o txt, <<"1", "\n">>, 1),
       File(<<"b">> \o md,
            <<"\t">> \o Join(<<" ", "\n", " ">>, Words(3)) \o <<" ">>, 3),
       File(<<"c", ".", "p", "d", "f">>, Join(<<" ">>, Words(5)), 5),
       File(<<"e">> \o txt, <<"\n", " ", "\n">>, 0) >>

CorpusPolicy == << File(policy_txt, Join(<<" ">>, Words(600)), 600) >>

\* word counts around the multiples of the default chunk size
CorpusEdges ==
    << File(<<"k">> \o md, Join(<<"\n">>, Words(512)), 512),
       File(<<"l">> \o txt, Join(<<" ">>, Words(513)) \o <<"\n">>, 513),
       File(<<"m">> \o md, <<" ">> \o Join(<<" ", " ">>, Words(1024)), 1024) >>

\* more chunks than two batches hold
CorpusLarge ==
    [k \in 1..LargeFiles |->
        File(<<"d">> \o Decimal(k) \o txt, Decimal(k) \o <<"\n">>, 1)]
    \o CorpusPolicy

Corpora ==
    << CorpusEmpty, CorpusMixed, CorpusPolicy, CorpusEdges, CorpusLarge >>

\* the orders os.listdir may return the files of a directory in
Listings(files) ==
    LET n == Len(files)
    IN  IF n <= MaxShuffled
        THEN {p \in [1..n -> 1..n] : \A a, b \in 1..n : a # b => p[a] # p[b]}
        ELSE {[k \in 1..n |-> k], [k \in 1..n |-> n + 1 - k]}

(***************************************************************************)
(* RAGEngine.index_documents: reading and chunking (lines 91-109)          *)
(***************************************************************************)
\* an id that leaves the chunk index out: f"{filename}"
ChunkIdOfFile(filename, i) == filename

\* an id made of the name without its extension: f"{Path(filename).stem}_{i}"
ChunkIdOfStem(filename, i) ==
    LET dots == {k \in 1..Len(filename) : filename[k] = "."}
        last == CHOOSE k \in dots : \A l \in dots : l <= k
    IN  (IF dots = {} THEN filename ELSE SubSeq(filename, 1, last - 1))
            \o <<"_">> \o Decimal(i)

\* f"{filename}_{i}"
ChunkId(filename, i) == filename \o <<"_">> \o Decimal(i)

\* the entries of one file numbered from 1: enumerate(chunks, 1)
FileDocumentsFromOne(file) ==
    IF Eligible(file.name)
    THEN LET chunks == chunk_text(file.content, DefaultChunkSize)
         IN  [c \in 1..Len(chunks) |->
                [id |-> ChunkId(file.name, c),
                 text |-> chunks[c],
                 source |-> file.name,
                 chunk_index |-> c]]
    ELSE << >>

\* the entries appended to documents for one file, in enumerate order
FileDocuments(file) ==
    IF Eligible(file.name)
    THEN LET chunks == chunk_text(file.content, DefaultChunkSize)
         IN  [c \in 1..Len(chunks) |->
                [id |-> ChunkId(file.name, c - 1),
                 text |-> chunks[c],
                 source |-> file.name,
                 chunk_index |-> c - 1]]
    ELSE << >>

\* documents after the files listing[lo..hi] have been read
RECURSIVE DocumentsOf(_, _, _, _)
DocumentsOf(files, listing, lo, hi) ==
    IF lo > hi THEN << >>
    ELSE IF lo = hi THEN FileDocuments(files[listing[lo]])
         ELSE LET mid == (lo + hi) \div 2
              IN  DocumentsOf(files, listing, lo, mid)
                      \o DocumentsOf(files, listing, mid + 1, hi)

\* ids numbered through the whole list: f"{filename}_{len(documents)}"
BuildDocumentsNumberedThrough(files, listing) ==
    LET docs == DocumentsOf(files, listing, 1, Len(listing))
    IN  [k \in 1..Len(docs) |->
            [docs[k] EXCEPT !.id = ChunkId(docs[k].source, k - 1)]]

BuildDocuments(files, listing) == DocumentsOf(files, listing, 1, Len(listing))

(***************************************************************************)
(* Providers: OpenAI embeddings, Pinecone index                            *)
(***************************************************************************)
embedding_dimension == 1536

\* response.data[0].embedding: the vector the provider returns for a text,
\* the same for the same text
get_embedding(text) == [dim |-> embedding_dimension, of |-> Len(text)]

batch_size == 100

\* a larger default: top_k: int = 5
DefaultTopKFive == 3 + 2

\* retrieve_relevant_chunks' default top_k
DefaultTopK == 3

\* the record appended to vectors for one entry of documents
Vector(doc) ==
    [id |-> doc.id,
     values |-> get_embedding(doc.text),
     metadata |-> [text |-> doc.text, source |-> doc.source,
                   chunk_index |-> doc.chunk_index]]

\* index.upsert(vectors=vectors): insert or replace by id
Upsert(st, vecs) ==
    LET ids == {vecs[k].id : k \in 1..Len(vecs)}
        last(id) == CHOOSE k \in 1..Len(vecs) :
                        /\ vecs[k].id = id
                        /\ \A j \in (k + 1)..Len(vecs) : vecs[j].id # id
    IN  [id \in DOMAIN st \cup ids |->
            IF id \in ids
            THEN [values |-> vecs[last(id)].values,
                  metadata |-> vecs[last(id)].metadata]
            ELSE st[id]]

\* stats['total_vector_count']
total_vector_count(st) == Cardinality(DOMAIN st)

\* a guard that lets every count through: stats['total_vector_count'] >= 0
NeedsIndexingAlways(count) == count >= 0

\* stats['total_vector_count'] == 0
NeedsIndexing(count) == count = 0

(***************************************************************************)
(* State                                                                   *)
(***************************************************************************)
VARIABLES
    corpus,          \* the data directory: an index into Corpora
    indexExists,     \* Pinecone lists the index acme-tech-chatbot
    store,           \* the index's records: id -> [values, metadata]
    pc,              \* where the process is in lifespan / initialize
    environ,         \* which of the two API keys the environment holds
    rag_engine,      \* main.py's global: "None" or "engine"
    index,           \* self.index: "None" or "handle"
    stats,           \* total_vector_count read by initialize, NoStats before
    documents,       \* index_documents: the list of chunk entries
    i,               \* index_documents: start of the batch in progress
    vectors,         \* index_documents: vectors prepared for the batch
    error,           \* what made the last startup fail, "none" otherwise
    calls,           \* provider calls made since the process started
    storeAtStart,    \* the store's contents when the operation started
    run,             \* who called index_documents: "initialize" or "again"
    previous,        \* history: how the previous process's indexing fared
    tasks,           \* the chat requests the server handles at a time
    qpc,             \* per request: where chat / query is
    question,        \* per request: request.message
    results,         \* per request: results['matches'], the store's answer
    relevant_chunks, \* per request: the list retrieve_relevant_chunks built
    context,         \* per request: the context block sent to the model
    response,        \* per request: the completion the model returned
    reply,           \* per request: the HTTP response
    qcalls,          \* per request: provider calls made by the request
    ct_text, ct_size, ct_out, ct_pc, \* the chunker harness
    id_a, id_b, id_store, id_pc      \* the chunk id harness

engine_vars ==
    <<corpus, indexExists, store, pc, environ, rag_engine, index, stats,
      documents, i, vectors, error, calls, storeAtStart, run, previous>>

query_vars ==
    <<tasks, qpc, question, results, relevant_chunks, context, response,
      reply, qcalls>>

ct_vars == <<ct_text, ct_size, ct_out, ct_pc>>

id_vars == <<id_a, id_b, id_store, id_pc>>

vars == <<engine_vars, query_vars, ct_vars, id_vars>>

NoStats == -1

NoReply == [status |-> 0]

Questions == {"q1", "q2"}

Completions == {"c1", "c2"}

\* the similarity scores the store attaches to its matches
Scores == {1, 2}

\* the store ranks, for a question, at most this many of its records
MaxPool == 4

EmptyStore == [id \in {} |-> 0]

IdleTasks(ts) ==
    /\ qpc = [t \in ts |-> "idle"]
    /\ question = [t \in ts |-> ""]
    /\ results = [t \in ts |-> << >>]
    /\ relevant_chunks = [t \in ts |-> << >>]
    /\ context = [t \in ts |-> << >>]
    /\ response = [t \in ts |-> ""]
    /\ reply = [t \in ts |-> NoReply]
    /\ qcalls = [t \in ts |-> << >>]

\* a fresh process has no request in flight
ResetTasks ==
    /\ qpc' = [t \in tasks |-> "idle"]
    /\ question' = [t \in tasks |-> ""]
    /\ results' = [t \in tasks |-> << >>]
    /\ relevant_chunks' = [t \in tasks |-> << >>]
    /\ context' = [t \in tasks |-> << >>]
    /\ response' = [t \in tasks |-> ""]
    /\ reply' = [t \in tasks |-> NoReply]
    /\ qcalls' = [t \in tasks |-> << >>]

NoDocument == [name |-> << >>, index |-> 0]

HarnessOff ==
    /\ ct_text = << >>
    /\ ct_size = 1
    /\ ct_out = << >>
    /\ ct_pc = "off"
    /\ id_a = NoDocument
    /\ id_b = NoDocument
    /\ id_store = EmptyStore
    /\ id_pc = "off"

EngineInit ==
    /\ corpus \in DOMAIN Corpora
    /\ indexExists \in BOOLEAN
    /\ store = EmptyStore
    /\ pc = "down"
    /\ environ = [pinecone |-> TRUE, openai |-> TRUE]
    /\ rag_engine = "None"
    /\ index = "None"
    /\ stats = NoStats
    /\ documents = << >>
    /\ i = 0
    /\ vectors = << >>
    /\ error = "none"
    /\ calls = << >>
    /\ storeAtStart = EmptyStore
    /\ run = "initialize"
    /\ previous = "none"

Init ==
    /\ EngineInit
    /\ tasks = {1}
    /\ IdleTasks(tasks)
    /\ HarnessOff

Call(op, batch, ok) == [op |-> op, batch |-> batch, ok |-> ok]

\* a provider call made for one entry of documents, item counted from 1
CallOn(op, batch, item, ok) ==
    [op |-> op, batch |-> batch, item |-> item, ok |-> ok]

(***************************************************************************)
(* main.py: lifespan                                                       *)
(***************************************************************************)
\* how the process that ends here fared with its indexing: whether a
\* provider call of index_documents failed, and in which batch
Outcome ==
    IF error \in {"embed", "upsert"}
    THEN IF calls[Len(calls)].batch = 1 THEN "first_batch" ELSE "later_batch"
    ELSE "none"

\* the process starts: module globals are fresh, lifespan begins (line 22)
lifespan_start ==
    /\ pc = "down"
    /\ pc' = "init"
    /\ environ' \in [pinecone : BOOLEAN, openai : BOOLEAN]
    /\ rag_engine' = "None"
    /\ index' = "None"
    /\ stats' = NoStats
    /\ documents' = << >>
    /\ i' = 0
    /\ vectors' = << >>
    /\ error' = "none"
    /\ calls' = << >>
    /\ storeAtStart' = store
    /\ run' = "initialize"
    /\ previous' = Outcome
    /\ ResetTasks
    /\ UNCHANGED <<corpus, indexExists, store, tasks, ct_vars, id_vars>>

\* the exception is printed and not raised again: the server starts
StartupGoesOn(kind) ==
    /\ pc' = "serving"
    /\ error' = kind

\* lines 27-29: the exception is printed and raised again; startup fails
\* and the process ends without serving
StartupFails(kind) ==
    /\ pc' = "down"
    /\ error' = kind

\* lines 33-34: the server shuts down; requests in flight end with it
lifespan_shutdown ==
    /\ pc = "serving"
    /\ pc' = "down"
    /\ ResetTasks
    /\ UNCHANGED <<corpus, previous, indexExists, store, environ, rag_engine, index,
                   stats, documents, i, vectors, error, calls, storeAtStart,
                   run, tasks, ct_vars, id_vars>>

(***************************************************************************)
(* RAGEngine.__init__ and RAGEngine.initialize                             *)
(***************************************************************************)
\* rag_engine = RAGEngine(): ValueError when a key is missing
RAGEngine_init ==
    /\ pc = "init"
    /\ IF environ.pinecone /\ environ.openai
       THEN /\ rag_engine' = "engine"
            /\ pc' = "list_indexes"
            /\ UNCHANGED error
       ELSE /\ StartupFails("ValueError")
            /\ UNCHANGED rag_engine
    /\ UNCHANGED <<corpus, previous, indexExists, store, environ, index, stats,
                   documents, i, vectors, calls, storeAtStart, run,
                   query_vars, ct_vars, id_vars>>

\* the listing is read and the index is taken to exist whatever it says
initialize_list_indexes_only ==
    /\ pc = "list_indexes"
    /\ \E ok \in BOOLEAN :
        /\ calls' = Append(calls, Call("list_indexes", 0, ok))
        /\ IF ok
           THEN /\ pc' = "describe"
                /\ UNCHANGED error
           ELSE StartupFails("list_indexes")
    /\ UNCHANGED <<corpus, previous, indexExists, store, environ, rag_engine, index,
                   stats, documents, i, vectors, storeAtStart, run,
                   query_vars, ct_vars, id_vars>>

\* line 42-44: self.pc.list_indexes()
initialize_list_indexes ==
    /\ pc = "list_indexes"
    /\ \E ok \in BOOLEAN :
        /\ calls' = Append(calls, Call("list_indexes", 0, ok))
        /\ IF ok
           THEN /\ pc' = IF indexExists THEN "describe" ELSE "create_index"
                /\ UNCHANGED error
           ELSE StartupFails("list_indexes")
    /\ UNCHANGED <<corpus, previous, indexExists, store, environ, rag_engine, index,
                   stats, documents, i, vectors, storeAtStart, run,
                   query_vars, ct_vars, id_vars>>

\* lines 45-54: self.pc.create_index(...)
initialize_create_index ==
    /\ pc = "create_index"
    /\ \E ok \in BOOLEAN :
        /\ calls' = Append(calls, Call("create_index", 0, ok))
        /\ IF ok
           THEN /\ indexExists' = TRUE
                /\ pc' = "describe"
                /\ UNCHANGED error
           ELSE /\ StartupFails("create_index")
                /\ UNCHANGED indexExists
    /\ UNCHANGED <<corpus, previous, store, environ, rag_engine, index, stats,
                   documents, i, vectors, storeAtStart, run, query_vars,
                   ct_vars, id_vars>>

\* lines 57-65: connect, describe_index_stats(), index when empty
initialize_describe ==
    /\ pc = "describe"
    /\ index' = "handle"
    /\ \E ok \in BOOLEAN :
        /\ calls' = Append(calls, Call("describe", 0, ok))
        /\ IF ok
           THEN /\ stats' = total_vector_count(store)
                /\ pc' = IF NeedsIndexing(stats')
                         THEN "read_documents" ELSE "serving"
                /\ UNCHANGED error
           ELSE /\ StartupFails("describe")
                /\ UNCHANGED stats
    /\ UNCHANGED <<corpus, previous, indexExists, store, environ, rag_engine,
                   documents, i, vectors, storeAtStart, run, query_vars,
                   ct_vars, id_vars>>

(***************************************************************************)
(* RAGEngine.index_documents                                               *)
(***************************************************************************)
\* documents[i:]: everything from start on
BatchToEnd(docs, start) == SubSeq(docs, start + 1, Len(docs))

\* documents[i:i + batch_size]
Batch(docs, start) == Slice(docs, start, batch_size)

\* the number of the batch that starts at documents[start], from 1
BatchNo(start) == start \div batch_size + 1

\* an exception raised inside index_documents is caught and the loop goes on
IndexingContinues(kind) == UNCHANGED <<pc, error>>

\* an exception raised inside index_documents: neither index_documents nor
\* initialize catches it; it reaches lifespan, or the direct caller
IndexingFails(kind) ==
    IF run = "initialize"
    THEN StartupFails(kind)
    ELSE /\ pc' = "serving"
         /\ error' = kind

\* lines 91-111: list the directory, read and chunk every eligible file
index_documents_read ==
    /\ pc = "read_documents"
    /\ \E listing \in Listings(Corpora[corpus]) :
        documents' = BuildDocuments(Corpora[corpus], listing)
    /\ i' = 0
    /\ vectors' = << >>
    /\ pc' = "indexing"
    /\ UNCHANGED <<corpus, previous, indexExists, store, environ, rag_engine, index,
                   stats, error, calls, storeAtStart, run, query_vars,
                   ct_vars, id_vars>>

\* every entry is written to the store as soon as it is embedded
index_documents_embed_and_upsert ==
    /\ pc = "indexing"
    /\ i < Len(documents)
    /\ Len(vectors) < Len(Batch(documents, i))
    /\ \E ok \in BOOLEAN :
        /\ calls' = Append(calls,
                CallOn("embed", BatchNo(i), i + Len(vectors) + 1, ok))
        /\ IF ok
           THEN /\ vectors' = Append(vectors,
                        Vector(Batch(documents, i)[Len(vectors) + 1]))
                /\ store' = Upsert(store,
                        <<Vector(Batch(documents, i)[Len(vectors) + 1])>>)
                /\ UNCHANGED <<pc, error>>
           ELSE /\ IndexingFails("embed")
                /\ UNCHANGED <<vectors, store>>
    /\ UNCHANGED <<corpus, previous, indexExists, environ, rag_engine, index,
                   stats, documents, i, storeAtStart, run, query_vars,
                   ct_vars, id_vars>>

\* lines 120-130: embed the next entry of the batch
index_documents_embed ==
    /\ pc = "indexing"
    /\ i < Len(documents)
    /\ Len(vectors) < Len(Batch(documents, i))
    /\ \E ok \in BOOLEAN :
        /\ calls' = Append(calls,
                CallOn("embed", BatchNo(i), i + Len(vectors) + 1, ok))
        /\ IF ok
           THEN /\ vectors' = Append(vectors,
                        Vector(Batch(documents, i)[Len(vectors) + 1]))
                /\ UNCHANGED <<pc, error>>
           ELSE /\ IndexingFails("embed")
                /\ UNCHANGED vectors
    /\ UNCHANGED <<corpus, previous, indexExists, store, environ, rag_engine, index,
                   stats, documents, i, storeAtStart, run, query_vars,
                   ct_vars, id_vars>>

\* line 133: upsert the batch, then on to the next batch
index_documents_upsert ==
    /\ pc = "indexing"
    /\ i < Len(documents)
    /\ Len(vectors) = Len(Batch(documents, i))
    /\ \E ok \in BOOLEAN :
        /\ calls' = Append(calls, Call("upsert", BatchNo(i), ok))
        /\ IF ok
           THEN /\ store' = Upsert(store, vectors)
                /\ i' = i + batch_size
                /\ vectors' = << >>
                /\ UNCHANGED <<pc, error>>
           ELSE /\ IndexingFails("upsert")
                /\ UNCHANGED <<store, i, vectors>>
    /\ UNCHANGED <<corpus, previous, indexExists, environ, rag_engine, index, stats,
                   documents, storeAtStart, run, query_vars,
                   ct_vars, id_vars>>

\* line 135, then initialize returns and lifespan yields: the server serves
index_documents_return ==
    /\ pc = "indexing"
    /\ i >= Len(documents)
    /\ pc' = "serving"
    /\ documents' = << >>
    /\ i' = 0
    /\ UNCHANGED <<corpus, previous, indexExists, store, environ, rag_engine, index,
                   stats, vectors, error, calls, storeAtStart, run,
                   query_vars, ct_vars, id_vars>>

(***************************************************************************)
(* RAGEngine.retrieve_relevant_chunks, generate_response, query; chat      *)
(***************************************************************************)
\* per corpus, the ids of its chunks in the order of its files, as a tuple
CanonicalIds ==
    [c \in DOMAIN Corpora |->
        LET docs == BuildDocuments(Corpora[c], [k \in 1..Len(Corpora[c]) |-> k])
        IN  [k \in 1..Len(docs) |-> docs[k].id] \o << >>] \o << >>

\* the records the store ranks for a question: the first MaxPool it holds
Pool(st, c) ==
    LET Held(id) == id \in DOMAIN st
        held == SelectSeq(CanonicalIds[c], Held)
    IN  {held[k] : k \in 1..Min(MaxPool, Len(held))}

\* index.query(vector, top_k, include_metadata=True): every answer the
\* store may give: at most top_k distinct records, scores never increasing
StoreQuery(st, c, top_k) ==
    LET pool == Pool(st, c)
        Ranked(n) ==
            {m \in [1..n -> pool \X Scores] :
                /\ \A a, b \in 1..n : a # b => m[a][1] # m[b][1]
                /\ \A a \in 1..(n - 1) : m[a][2] >= m[a + 1][2]}
    IN  UNION {
          {[k \in 1..n |-> [id |-> m[k][1], score |-> m[k][2],
                            metadata |-> st[m[k][1]].metadata]] : m \in Ranked(n)}
          : n \in 0..Min(top_k, Cardinality(pool))}

\* lines 150-156: the chunks extracted from results['matches'], in order
ExtractChunks(matches) ==
    [k \in 1..Len(matches) |->
        [text |-> matches[k].metadata.text,
         source |-> matches[k].metadata.source,
         score |-> matches[k].score]]

SourceHeader == <<"[", "S", "o", "u", "r", "c", "e", ":", " ">>

\* a context block that says so when nothing was retrieved
BuildContextOrNotice(context_chunks) ==
    IF context_chunks = << >>
    THEN <<"(", "n", "o", "n", "e", ")">>
    ELSE Join(<<"\n", "\n">>,
              [k \in 1..Len(context_chunks) |->
                  SourceHeader \o context_chunks[k].source \o <<"]", "\n">>
                      \o context_chunks[k].text])

\* f"[Source: {chunk['source']}]\n{chunk['text']}"
ContextEntry(chunk) == SourceHeader \o chunk.source \o <<"]", "\n">> \o chunk.text

\* line 163: "\n\n".join([... for chunk in context_chunks])
BuildContext(context_chunks) ==
    Join(<<"\n", "\n">>,
         [k \in 1..Len(context_chunks) |-> ContextEntry(context_chunks[k])])

\* the elements of xs as they come, duplicates kept: list(xs)
ListWithDuplicates(xs) == {xs}

\* list(set(xs)): the distinct elements of xs, in any order
ListOfSet(xs) ==
    LET S == {xs[k] : k \in 1..Len(xs)}
        n == Cardinality(S)
    IN  {l \in [1..n -> S] : \A a, b \in 1..n : a # b => l[a] # l[b]}

\* line 206: the sources of the chunks
ChunkSources(chunks) == [k \in 1..Len(chunks) |-> chunks[k].source]

\* the error is swallowed and what there is so far is returned
Http200Partial(t, kind) ==
    /\ reply' = [reply EXCEPT ![t] =
                    [status |-> 200, response |-> response[t],
                     sources |-> ChunkSources(relevant_chunks[t])]]
    /\ qpc' = [qpc EXCEPT ![t] = "replied"]

\* the error is swallowed and the pipeline goes on to the generation
QueryGoesOn(t, kind) ==
    /\ qpc' = [qpc EXCEPT ![t] = "generate"]
    /\ UNCHANGED reply

\* main.py lines 78-80: HTTP 500 with the error's text
Http500(t, kind) ==
    /\ reply' = [reply EXCEPT ![t] = [status |-> 500, detail |-> kind]]
    /\ qpc' = [qpc EXCEPT ![t] = "replied"]

\* POST /api/chat arrives (main.py lines 63-68)
chat_receive(t) ==
    /\ pc = "serving"
    /\ qpc[t] \in {"idle", "replied"}
    /\ \E message \in Questions :
        question' = [question EXCEPT ![t] = message]
    /\ results' = [results EXCEPT ![t] = << >>]
    /\ relevant_chunks' = [relevant_chunks EXCEPT ![t] = << >>]
    /\ context' = [context EXCEPT ![t] = << >>]
    /\ response' = [response EXCEPT ![t] = ""]
    /\ qcalls' = [qcalls EXCEPT ![t] = << >>]
    /\ IF rag_engine = "None"
       THEN /\ reply' = [reply EXCEPT ![t] =
                    [status |-> 503, detail |-> "RAG engine not initialized"]]
            /\ qpc' = [qpc EXCEPT ![t] = "replied"]
       ELSE /\ reply' = [reply EXCEPT ![t] = NoReply]
            /\ qpc' = [qpc EXCEPT ![t] = "embed"]
    /\ UNCHANGED <<engine_vars, tasks, ct_vars, id_vars>>

\* line 140: query_embedding = self.get_embedding(query)
query_embed(t) ==
    /\ pc = "serving"
    /\ qpc[t] = "embed"
    /\ \E ok \in BOOLEAN :
        /\ qcalls' = [qcalls EXCEPT ![t] = Append(@, Call("embed", 0, ok))]
        /\ IF ok
           THEN /\ qpc' = [qpc EXCEPT ![t] = "search"]
                /\ UNCHANGED reply
           ELSE Http500(t, "embed")
    /\ UNCHANGED <<engine_vars, tasks, question, results, relevant_chunks,
                   context, response, ct_vars, id_vars>>

\* the extracted chunks are kept in one attribute of the engine, which every
\* request in flight then reads from
query_search_shared(t) ==
    /\ pc = "serving"
    /\ qpc[t] = "search"
    /\ \E ok \in BOOLEAN :
        /\ qcalls' = [qcalls EXCEPT ![t] = Append(@, Call("query", 0, ok))]
        /\ IF ok
           THEN /\ \E matches \in StoreQuery(store, corpus, DefaultTopK) :
                    /\ results' = [results EXCEPT ![t] = matches]
                    /\ relevant_chunks' = [u \in tasks |->
                                            ExtractChunks(matches)]
                /\ qpc' = [qpc EXCEPT ![t] = "generate"]
                /\ UNCHANGED reply
           ELSE /\ Http500(t, "query")
                /\ UNCHANGED <<results, relevant_chunks>>
    /\ UNCHANGED <<engine_vars, tasks, question, context, response, ct_vars, id_vars>>

\* lines 143-158: query the index, extract the chunks
query_search(t) ==
    /\ pc = "serving"
    /\ qpc[t] = "search"
    /\ \E ok \in BOOLEAN :
        /\ qcalls' = [qcalls EXCEPT ![t] = Append(@, Call("query", 0, ok))]
        /\ IF ok
           THEN /\ \E matches \in StoreQuery(store, corpus, DefaultTopK) :
                    /\ results' = [results EXCEPT ![t] = matches]
                    /\ relevant_chunks' = [relevant_chunks EXCEPT ![t] =
                                            ExtractChunks(matches)]
                /\ qpc' = [qpc EXCEPT ![t] = "generate"]
                /\ UNCHANGED reply
           ELSE /\ Http500(t, "query")
                /\ UNCHANGED <<results, relevant_chunks>>
    /\ UNCHANGED <<engine_vars, tasks, question, context, response, ct_vars, id_vars>>

\* lines 163-192 and 203-208, main.py lines 74-77: build the prompt, call
\* the model, collect the sources, answer
query_generate(t) ==
    /\ pc = "serving"
    /\ qpc[t] = "generate"
    /\ context' = [context EXCEPT ![t] = BuildContext(relevant_chunks[t])]
    /\ \E ok \in BOOLEAN :
        /\ qcalls' = [qcalls EXCEPT ![t] = Append(@, Call("generate", 0, ok))]
        /\ IF ok
           THEN /\ \E completion \in Completions,
                      sources \in ListOfSet(ChunkSources(relevant_chunks[t])) :
                    /\ response' = [response EXCEPT ![t] = completion]
                    /\ reply' = [reply EXCEPT ![t] =
                                [status |-> 200, response |-> completion,
                                 sources |-> sources]]
                /\ qpc' = [qpc EXCEPT ![t] = "replied"]
           ELSE /\ Http500(t, "generate")
                /\ UNCHANGED response
    /\ UNCHANGED <<engine_vars, tasks, question, results, relevant_chunks,
                   ct_vars, id_vars>>

(***************************************************************************)
(* The service: startup, indexing, requests, shutdown and restart          *)
(***************************************************************************)
Next ==
    \/ lifespan_start
    \/ RAGEngine_init
    \/ initialize_list_indexes
    \/ initialize_create_index
    \/ initialize_describe
    \/ index_documents_read
    \/ index_documents_embed
    \/ index_documents_upsert
    \/ index_documents_return
    \/ lifespan_shutdown
    \/ \E t \in tasks : chat_receive(t)
    \/ \E t \in tasks : query_embed(t)
    \/ \E t \in tasks : query_search(t)
    \/ \E t \in tasks : query_generate(t)

Spec == Init /\ [][Next]_vars

(***************************************************************************)
(* Two requests in flight: chat is async, so a second request may be       *)
(* handled while the first awaits query                                    *)
(***************************************************************************)
ConcurrentInit ==
    /\ EngineInit
    /\ corpus = 2
    /\ tasks = {1, 2}
    /\ IdleTasks(tasks)
    /\ HarnessOff

SpecConcurrent == ConcurrentInit /\ [][Next]_vars

(***************************************************************************)
(* Indexing again: index_documents called on an engine that has indexed    *)
(***************************************************************************)
\* a direct call of index_documents, past the guard of initialize, on the
\* engine whose initialize has indexed the corpus
index_documents_again ==
    /\ pc = "serving"
    /\ run = "initialize"
    /\ stats = 0
    /\ run' = "again"
    /\ pc' = "read_documents"
    /\ storeAtStart' = store
    /\ calls' = << >>
    /\ UNCHANGED <<corpus, previous, indexExists, store, environ, rag_engine, index,
                   stats, documents, i, vectors, error, query_vars, ct_vars, id_vars>>

NextAgain ==
    \/ lifespan_start
    \/ RAGEngine_init
    \/ initialize_list_indexes
    \/ initialize_create_index
    \/ initialize_describe
    \/ index_documents_read
    \/ index_documents_embed
    \/ index_documents_upsert
    \/ index_documents_return
    \/ index_documents_again
    \/ lifespan_shutdown

SpecAgain == Init /\ [][NextAgain]_vars

(***************************************************************************)
(* Chunker harness: chunk_text applied to every short text                 *)
(***************************************************************************)
\* the characters of the harness's texts: three kinds of whitespace, two letters
Alphabet == {" ", "\n", "\t", "a", "b"}

Texts == UNION {[1..n -> Alphabet] : n \in 0..MaxTextLen}

\* the engine is not running while the harness runs
EngineOff ==
    /\ EngineInit
    /\ corpus = 1
    /\ indexExists = FALSE
    /\ tasks = {1}
    /\ IdleTasks(tasks)

ChunkInit ==
    /\ EngineOff
    /\ id_a = NoDocument
    /\ id_b = NoDocument
    /\ id_store = EmptyStore
    /\ id_pc = "off"
    /\ ct_text \in Texts
    /\ ct_size \in 1..MaxChunkArg
    /\ ct_out = << >>
    /\ ct_pc = "call"

ChunkCall ==
    /\ ct_pc = "call"
    /\ ct_out' = chunk_text(ct_text, ct_size)
    /\ ct_pc' = "returned"
    /\ UNCHANGED <<ct_text, ct_size, engine_vars, query_vars, id_vars>>

SpecChunk == ChunkInit /\ [][ChunkCall]_vars

(***************************************************************************)
(* Chunk id harness: two chunks of eligible files get their ids and are    *)
(* upserted one after the other                                            *)
(***************************************************************************)
\* the largest chunk index the harness gives a chunk
MaxIndex == 11

\* file names that end in .txt or .md and look like ids of one another
FileNames ==
    LET a  == <<"a">>
        u0 == <<"_", "0">>
        u1 == <<"_", "1">>
    IN  {a \o txt, a \o md,
         a \o u1 \o txt, a \o u1 \o md,
         a \o txt \o u0 \o txt, a \o txt \o u1 \o txt,
         a \o txt \o u1 \o md, a \o u1 \o u0 \o txt,
         a \o u1 \o <<"0">> \o md, txt, u1 \o txt}

\* the chunk entry index_documents builds for chunk number index of a file
DocumentOf(d) ==
    [id |-> ChunkId(d.name, d.index),
     text |-> << >>,
     source |-> d.name,
     chunk_index |-> d.index]

IdInit ==
    /\ EngineOff
    /\ ct_text = << >>
    /\ ct_size = 1
    /\ ct_out = << >>
    /\ ct_pc = "off"
    /\ id_a \in [name : FileNames, index : 0..MaxIndex]
    /\ id_b \in [name : FileNames, index : 0..MaxIndex]
    /\ id_store = EmptyStore
    /\ id_pc = "call"

IdCall ==
    /\ id_pc = "call"
    /\ id_store' = Upsert(Upsert(id_store, <<Vector(DocumentOf(id_a))>>),
                          <<Vector(DocumentOf(id_b))>>)
    /\ id_pc' = "returned"
    /\ UNCHANGED <<id_a, id_b, engine_vars, query_vars, ct_vars>>

SpecIds == IdInit /\ [][IdCall]_vars
(***************************************************************************)
(* Properties of initialize and index_documents                            *)
(***************************************************************************)
IndexingCalls == {"embed", "upsert"}

\* the batch the k-th entry of the chunk list falls in, from 1
BatchOf(k) == (k - 1) \div batch_size + 1

\* the number of chunks the chunker yields over the eligible files among
\* files[lo..hi]
RECURSIVE ChunkCount(_, _, _)
ChunkCount(files, lo, hi) ==
    IF lo > hi THEN 0
    ELSE IF lo = hi
         THEN IF Eligible(files[lo].name)
              THEN Len(chunk_text(files[lo].content, DefaultChunkSize))
              ELSE 0
         ELSE LET mid == (lo + hi) \div 2
              IN  ChunkCount(files, lo, mid) + ChunkCount(files, mid + 1, hi)

\* per corpus, as a tuple
TotalChunks ==
    [c \in DOMAIN Corpora |-> ChunkCount(Corpora[c], 1, Len(Corpora[c]))]
        \o << >>

\* C1: in a run of initialize in which describe reports a record count
\* greater than 0, no embedding call and no upsert call is made and the
\* store's contents stay what they were
GuardSkipsIndexing ==
    stats > 0 =>
        /\ \A k \in 1..Len(calls) : calls[k].op \notin IndexingCalls
        /\ store = storeAtStart

\* C1 witness: a restarted process found more than one batch of records
\* and serves
ServingAlreadyIndexed ==
    /\ pc = "serving"
    /\ stats > batch_size
    /\ calls # << >>

\* initialize has returned and no request has been handled yet
JustInitialized == pc = "serving" /\ \A t \in tasks : qpc[t] = "idle"

\* C2: when initialize starts on an empty collection and no provider call
\* fails, indexing goes on until it returns, and the record count is then
\* the number of chunks of the eligible documents
IndexedCountIsChunkCount ==
    /\ (pc = "indexing" /\ stats = 0) =>
          \/ i >= Len(documents)
          \/ Len(vectors) <= Len(Batch(documents, i))
    /\ (JustInitialized /\ stats = 0) =>
          /\ \A k \in 1..Len(calls) : calls[k].ok
          /\ total_vector_count(store) = TotalChunks[corpus]

\* C2 witness: a run that started empty has indexed more than two batches
\* and serves
ServingFreshlyIndexed ==
    /\ JustInitialized
    /\ stats = 0
    /\ total_vector_count(store) > 2 * batch_size

\* C3: when an embedding or upsert call fails while batch j is in progress,
\* it is the run's last provider call, the run ends in failure, the records
\* of the batches before j are in the store, and no upsert was issued for a
\* batch after j
FailedBatchKeepsEarlierOnes ==
    \A k \in 1..Len(calls) :
        (calls[k].op \in IndexingCalls /\ ~calls[k].ok) =>
            LET j == calls[k].batch
            IN  /\ k = Len(calls)
                /\ pc = "down"
                /\ error = calls[k].op
                /\ \A d \in 1..Len(documents) :
                      BatchOf(d) < j =>
                          /\ documents[d].id \in DOMAIN store
                          /\ store[documents[d].id].metadata.text
                                 = documents[d].text
                /\ \A u \in 1..Len(calls) :
                      calls[u].op = "upsert" => calls[u].batch <= j

\* C3 witness: an embedding failed in batch 2 of 3 and batch 1 is stored
FailedInSecondBatch ==
    /\ pc = "down"
    /\ error = "embed"
    /\ calls[Len(calls)].batch = 2
    /\ Len(documents) > 2 * batch_size
    /\ total_vector_count(store) = batch_size

\* the number of words of a text: the positions where a word ends
WordCount(s) ==
    Cardinality({j \in 1..Len(s) :
        ~IsSpace(s[j]) /\ (j = Len(s) \/ IsSpace(s[j + 1]))})

DigitValue(c) == CHOOSE d \in 0..9 : Digit(d) = c

\* int(s) for a string of digits
RECURSIVE ParseDecimal(_)
ParseDecimal(s) ==
    IF Len(s) = 1 THEN DigitValue(s[1])
    ELSE 10 * ParseDecimal(SubSeq(s, 1, Len(s) - 1)) + DigitValue(s[Len(s)])

\* id is name, "_" and the digits of n
IsIdOf(id, name, n) ==
    LET suffix == SubSeq(id, Len(name) + 2, Len(id))
    IN  /\ Len(id) >= Len(name) + 2
        /\ SubSeq(id, 1, Len(name)) = name
        /\ id[Len(name) + 1] = "_"
        /\ \A j \in 1..Len(suffix) : \E d \in 0..9 : Digit(d) = suffix[j]
        /\ (Len(suffix) > 1 => suffix[1] # "0")
        /\ ParseDecimal(suffix) = n

\* C6: a document of n >= 1 words is indexed as ceil(n / 512) chunks, each
\* of 512 words but the last, which holds the rest, with ids f_0, f_1, ...
\* in chunk order and chunk_index equal to the id's numeric suffix
DocumentIsCutEvery512Words ==
    (pc = "indexing" /\ i = 0 /\ vectors = << >>) =>
        \A f \in 1..Len(Corpora[corpus]) :
            LET file == Corpora[corpus][f]
                n == file.nwords
                OfFile(doc) == doc.source = file.name
                entries == SelectSeq(documents, OfFile)
                count == (n + 511) \div 512
            IN  (Eligible(file.name) /\ n >= 1) =>
                    /\ Len(entries) = count
                    /\ \A c \in 1..Len(entries) :
                          /\ IsIdOf(entries[c].id, file.name, c - 1)
                          /\ entries[c].chunk_index = c - 1
                          /\ WordCount(entries[c].text) =
                                IF c < count THEN 512
                                ELSE n - 512 * (count - 1)

\* C6 witness: policy.txt of 600 words has been read as policy.txt_0 with
\* 512 words and policy.txt_1 with 88 words
PolicyReadAsTwoChunks ==
    /\ pc = "indexing"
    /\ Len(documents) = 2
    /\ documents[1].id = policy_txt \o <<"_", "0">>
    /\ WordCount(documents[1].text) = 512
    /\ documents[2].id = policy_txt \o <<"_", "1">>
    /\ WordCount(documents[2].text) = 88

\* C7: indexing the same corpus a second time, past the guard and in any
\* listing order, yields the ids and the id-to-text mapping of the first
\* run: every upsert replaces a record, none adds one, and the store ends
\* with the records and the record count it had
IndexingAgainReplacesInPlace ==
    run = "again" =>
        /\ pc = "indexing" =>
              /\ {documents[k].id : k \in 1..Len(documents)}
                     = DOMAIN storeAtStart
              /\ \A k \in 1..Len(documents) :
                    storeAtStart[documents[k].id].metadata.text
                        = documents[k].text
        /\ DOMAIN store = DOMAIN storeAtStart
        /\ (pc = "serving" /\ error = "none") =>
              /\ \A id \in DOMAIN store :
                    store[id].metadata = storeAtStart[id].metadata
              /\ total_vector_count(store) = total_vector_count(storeAtStart)

\* C7 witness: a second run over more than two batches has returned
IndexedAgain ==
    /\ run = "again"
    /\ pc = "serving"
    /\ error = "none"
    /\ total_vector_count(store) > 2 * batch_size
    /\ Len(calls) > total_vector_count(store)

(***************************************************************************)
(* Properties of query                                                     *)
(***************************************************************************)
Answered(t) == qpc[t] = "replied" /\ reply[t].status = 200

\* the provider calls of request t that are of kind op
CallsOf(t, op) == {k \in 1..Len(qcalls[t]) : qcalls[t][k].op = op}

\* C8: the sources query returns hold each distinct source of the retrieved
\* chunks exactly once and nothing else
SourcesAreTheDistinctSources ==
    \A t \in tasks :
        Answered(t) =>
            LET chunks == relevant_chunks[t]
                sources == reply[t].sources
            IN  /\ \A k \in 1..Len(chunks) :
                      Cardinality({j \in 1..Len(sources) :
                                      sources[j] = chunks[k].source}) = 1
                /\ \A j \in 1..Len(sources) :
                      \E k \in 1..Len(chunks) : chunks[k].source = sources[j]

\* C8 witness: three chunks of two documents were retrieved and answered
\* with two sources
AnsweredWithRepeatedSource ==
    \E t \in tasks :
        /\ Answered(t)
        /\ Len(relevant_chunks[t]) = 3
        /\ relevant_chunks[t][1].source = relevant_chunks[t][3].source
        /\ relevant_chunks[t][1].source # relevant_chunks[t][2].source
        /\ Len(reply[t].sources) = 2

\* where the k-th chunk's entry starts in the context block, less one
RECURSIVE EntryOffset(_, _)
EntryOffset(chunks, k) ==
    IF k = 1 THEN 0
    ELSE EntryOffset(chunks, k - 1) + Len(SourceHeader)
             + Len(chunks[k - 1].source) + 2 + Len(chunks[k - 1].text) + 2

\* C9: every query retrieves with top_k = 3: the chunk list has at most 3
\* entries, in the order of the store's ranked matches (scores never
\* increasing), and the context block holds the chunks' source-attributed
\* texts in that order
RetrievalKeepsRankedOrder ==
    \A t \in tasks :
        LET chunks == relevant_chunks[t]
            n == Len(chunks)
        IN  /\ n <= 3
            /\ n = Len(results[t])
            /\ \A k \in 1..n :
                  /\ chunks[k].text = results[t][k].metadata.text
                  /\ chunks[k].source = results[t][k].metadata.source
                  /\ chunks[k].score = results[t][k].score
            /\ \A k \in 1..(n - 1) : chunks[k].score >= chunks[k + 1].score
            /\ CallsOf(t, "generate") # {} =>
                  /\ \A k \in 1..n :
                        SubSeq(context[t], EntryOffset(chunks, k) + 1,
                               EntryOffset(chunks, k + 1) - 2)
                            = SourceHeader \o chunks[k].source
                                  \o <<"]", "\n">> \o chunks[k].text
                  /\ \A k \in 1..(n - 1) :
                        SubSeq(context[t], EntryOffset(chunks, k + 1) - 1,
                               EntryOffset(chunks, k + 1)) = <<"\n", "\n">>
                  /\ Len(context[t]) =
                        IF n = 0 THEN 0 ELSE EntryOffset(chunks, n + 1) - 2

\* C9 witness: three chunks of differing scores were retrieved and the
\* prompt was built from them
AnsweredFromThreeRanked ==
    \E t \in tasks :
        /\ Answered(t)
        /\ Len(relevant_chunks[t]) = 3
        /\ relevant_chunks[t][1].score > relevant_chunks[t][3].score
        /\ relevant_chunks[t][1].text # relevant_chunks[t][2].text

\* C10: when the store returns no match, query does not fail: it calls the
\* model exactly once, with an empty context block, and returns the
\* completion with an empty source list
NoMatchStillAnswers ==
    \A t \in tasks :
        (\E k \in CallsOf(t, "query") : qcalls[t][k].ok) /\ results[t] = << >>
        => /\ qpc[t] \in {"generate", "replied"}
           /\ qpc[t] = "replied" =>
                 /\ Cardinality(CallsOf(t, "generate")) = 1
                 /\ context[t] = << >>
                 /\ IF qcalls[t][Len(qcalls[t])].ok
                    THEN /\ response[t] \in Completions
                         /\ reply[t] = [status |-> 200,
                                        response |-> response[t],
                                        sources |-> << >>]
                    ELSE reply[t] = [status |-> 500, detail |-> "generate"]

\* C10 witness: a question asked of an empty collection was answered
AnsweredFromEmptyStore ==
    \E t \in tasks :
        /\ Answered(t)
        /\ store = EmptyStore
        /\ results[t] = << >>
        /\ reply[t].sources = << >>

(***************************************************************************)
(* Properties of error handling                                            *)
(***************************************************************************)
AllOk(log) == \A k \in 1..Len(log) : log[k].ok

\* C11: a chat request is answered either with the completion and the
\* sources, all three provider calls having succeeded, or with an explicit
\* error (HTTP 500, or 503 without an engine) that carries no answer text
\* and no sources, a provider call having failed
NoPartialAnswer ==
    \A t \in tasks :
        qpc[t] = "replied" =>
            IF reply[t].status = 200
            THEN /\ Len(qcalls[t]) = 3
                 /\ AllOk(qcalls[t])
                 /\ reply[t].response = response[t]
                 /\ response[t] \in Completions
                 /\ DOMAIN reply[t] = {"status", "response", "sources"}
            ELSE /\ DOMAIN reply[t] = {"status", "detail"}
                 /\ \/ /\ reply[t].status = 500
                       /\ qcalls[t] # << >>
                       /\ ~qcalls[t][Len(qcalls[t])].ok
                       /\ reply[t].detail = qcalls[t][Len(qcalls[t])].op
                    \/ /\ reply[t].status = 503
                       /\ rag_engine = "None"
                       /\ qcalls[t] = << >>

\* C11 witness: the generation failed after chunks had been retrieved and
\* the request was answered with HTTP 500
FailedAfterRetrieval ==
    \E t \in tasks :
        /\ qpc[t] = "replied"
        /\ reply[t].status = 500
        /\ relevant_chunks[t] # << >>
        /\ Len(qcalls[t]) = 3

\* item a of the log comes before item b in the one order initialize makes
\* its provider calls in
CallBefore(a, b) ==
    \/ a.batch < b.batch
    \/ /\ a.batch = 0
       /\ b.batch = 0
       /\ \/ a.op = "list_indexes" /\ b.op \in {"create_index", "describe"}
          \/ a.op = "create_index" /\ b.op = "describe"
    \/ /\ a.batch = b.batch
       /\ a.batch > 0
       /\ \/ a.op = "embed" /\ b.op = "embed" /\ a.item < b.item
          \/ a.op = "embed" /\ b.op = "upsert"

QueryCallOrder == <<"embed", "query", "generate">>

\* C12: provider errors are neither swallowed nor retried: in one run of
\* initialize and in one query every call site is tried at most once per
\* item (the log is strictly ordered by item), and a failed call is the
\* operation's last provider call
NoRetryNoSwallow ==
    /\ \A k \in 1..(Len(calls) - 1) :
          /\ calls[k].ok
          /\ CallBefore(calls[k], calls[k + 1])
    /\ \A t \in tasks :
          /\ Len(qcalls[t]) <= 3
          /\ \A k \in 1..Len(qcalls[t]) :
                /\ qcalls[t][k].op = QueryCallOrder[k]
                /\ k < Len(qcalls[t]) => qcalls[t][k].ok

\* C12 witness: the store query of a request failed, after initialize had
\* indexed more than one batch, and nothing was called after it
StoreQueryFailedLast ==
    \E t \in tasks :
        /\ qpc[t] = "replied"
        /\ Len(qcalls[t]) = 2
        /\ ~qcalls[t][2].ok
        /\ Len(calls) > batch_size

\* C13: a request is passed to query only in a process whose startup
\* succeeded: both keys present, every provider call of initialize
\* succeeded; a missing key or a failed call ends the startup
StartupFailureIsFatal ==
    /\ (\E t \in tasks : qpc[t] # "idle") =>
          /\ pc = "serving"
          /\ rag_engine = "engine"
          /\ index = "handle"
          /\ environ.pinecone /\ environ.openai
          /\ error = "none"
          /\ AllOk(calls)
    /\ (~AllOk(calls) \/ ((~environ.pinecone \/ ~environ.openai)
                              /\ pc # "init")) =>
          /\ pc = "down"
          /\ error # "none"
          /\ \A t \in tasks : qpc[t] = "idle"

\* C13 witness: a process without the OpenAI key has ended its startup in
\* failure
StartupFailedOnMissingKey ==
    /\ pc = "down"
    /\ error = "ValueError"
    /\ environ.pinecone
    /\ ~environ.openai

(***************************************************************************)
(* Properties of requests in flight together                               *)
(***************************************************************************)
\* what request t holds of its own
QueryLocals(t) ==
    <<qpc[t], question[t], results[t], relevant_chunks[t], context[t],
      response[t], reply[t], qcalls[t]>>

\* matches is an answer of the store st: at most top_k distinct records of
\* st with their metadata, ranked
IsAnswerOf(matches, st, top_k) ==
    /\ Len(matches) <= top_k
    /\ \A k \in 1..Len(matches) :
          /\ matches[k].id \in DOMAIN st
          /\ matches[k].metadata = st[matches[k].id].metadata
          /\ \A l \in 1..(k - 1) :
                /\ matches[l].id # matches[k].id
                /\ matches[l].score >= matches[k].score

\* request t gets the result it would get alone: its matches are an answer
\* of the store as it stands, and everything after is computed from them
AsIfAlone(t) ==
    /\ (Len(qcalls[t]) >= 2 /\ qcalls[t][2].ok) =>
          /\ IsAnswerOf(results[t], store, DefaultTopK)
          /\ relevant_chunks[t] = ExtractChunks(results[t])
    /\ (qpc[t] = "replied" /\ reply[t].status = 200) =>
          /\ context[t] = BuildContext(ExtractChunks(results[t]))
          /\ reply[t].response = response[t]
          /\ reply[t].sources \in
                ListOfSet(ChunkSources(ExtractChunks(results[t])))

\* a step of request t while the service runs changes neither the store,
\* nor a field of the engine, nor anything another request holds
StepIsLocal(t) ==
    (/\ pc = "serving"
     /\ pc' = "serving"
     /\ QueryLocals(t)' # QueryLocals(t)) =>
        /\ engine_vars' = engine_vars
        /\ \A u \in tasks \ {t} : QueryLocals(u)' = QueryLocals(u)

\* C14: requests in flight together share no mutable state: no step of a
\* request writes the store, the engine or another request's data, and each
\* request's answer is the one it would get alone against the same store
QueriesShareNothing ==
    /\ [](\A t \in tasks : AsIfAlone(t))
    /\ [][\A t \in tasks : StepIsLocal(t)]_vars

\* C14 witness: one request has been answered from two matches while the
\* other, with other matches, is between its store query and its generation
AnsweredWhileOtherInFlight ==
    /\ tasks = {1, 2}
    /\ qpc[1] = "replied"
    /\ reply[1].status = 200
    /\ Len(results[1]) = 2
    /\ qpc[2] = "generate"
    /\ results[2] # results[1]
    /\ results[2] # << >>

(***************************************************************************)
(* Properties of the order of initialize's steps                           *)
(***************************************************************************)
\* the calls of initialize before index_documents: list_indexes, describe,
\* and create_index between them when it was needed
SetupCalls == IF Len(calls) >= 2 /\ calls[2].op = "describe" THEN 2 ELSE 3

\* the p-th provider call of an indexing run over n chunks, when batches
\* are worked off one after the other: batch_size embeddings (fewer in the
\* last batch), then the batch's upsert
SequentialCall(p, n) ==
    LET b    == (p - 1) \div (batch_size + 1) + 1
        o    == ((p - 1) % (batch_size + 1)) + 1
        size == Min(batch_size, n - (b - 1) * batch_size)
    IN  IF o <= size
        THEN [op |-> "embed", batch |-> b, item |-> (b - 1) * batch_size + o]
        ELSE IF o = size + 1 /\ size >= 1
             THEN [op |-> "upsert", batch |-> b, item |-> 0]
             ELSE [op |-> "none", batch |-> 0, item |-> 0]

IndexingStopped == pc = "down" /\ error \in IndexingCalls

\* the log of the indexing run is the sequential one, up to where it got
BatchesInSequence ==
    (pc = "indexing" \/ IndexingStopped) =>
        /\ Len(vectors) <= batch_size
        /\ \A k \in 1..Len(vectors) : vectors[k].id = documents[i + k].id
        /\ \A p \in 1..(Len(calls) - SetupCalls) :
              LET c == calls[SetupCalls + p]
                  e == SequentialCall(p, Len(documents))
              IN  /\ c.op = e.op
                  /\ c.batch = e.batch
                  /\ c.op = "embed" => c.item = e.item
                  /\ c.ok \/ SetupCalls + p = Len(calls)

\* a write to the store is the upsert of the whole current batch, at most
\* batch_size records, every one of them embedded
UpsertIsOneWholeBatch ==
    store' # store =>
        /\ pc = "indexing"
        /\ Len(vectors) = Min(batch_size, Len(documents) - i)
        /\ i % batch_size = 0
        /\ calls'[Len(calls')].op = "upsert"
        /\ DOMAIN store' =
              DOMAIN store \cup {documents[k].id : k \in (i + 1)..(i + Len(vectors))}
        /\ i' = i + batch_size

\* C15: the chunk list is worked off in consecutive batches of batch_size
\* entries, the last one possibly shorter; the entries of a batch are
\* embedded one at a time, then the batch is upserted in one call, and no
\* entry of the next batch is embedded before that upsert has returned
BatchesStrictlySequential ==
    /\ []BatchesInSequence
    /\ [][UpsertIsOneWholeBatch]_vars

\* C15 witness: the third, shorter batch is being embedded after two full
\* batches were upserted
EmbeddingShortLastBatch ==
    /\ pc = "indexing"
    /\ i = 2 * batch_size
    /\ Len(documents) - i < batch_size
    /\ Len(vectors) > 0
    /\ total_vector_count(store) = 2 * batch_size

\* where a run of initialize stands, in the names of the life cycle
Phase ==
    CASE pc \in {"init", "list_indexes", "create_index"} -> "UNINITIALIZED"
      [] pc = "describe" -> "COLLECTION_READY"
      [] pc = "read_documents" -> "EMPTY"
      [] pc = "indexing" -> "INDEXING"
      [] pc = "serving" /\ stats = 0 -> "INDEXED"
      [] pc = "serving" /\ stats # 0 -> "ALREADY_INDEXED"
      [] OTHER -> "DOWN"

PhaseSteps ==
    {<<"DOWN", "UNINITIALIZED">>,
     <<"UNINITIALIZED", "COLLECTION_READY">>,
     <<"COLLECTION_READY", "EMPTY">>,
     <<"COLLECTION_READY", "ALREADY_INDEXED">>,
     <<"EMPTY", "INDEXING">>,
     <<"INDEXING", "INDEXED">>}

\* what holds in each phase of a run
PhaseHolds ==
    /\ Phase = "COLLECTION_READY" =>
          /\ indexExists
          /\ calls[Len(calls)].op \in {"list_indexes", "create_index"}
          /\ calls[1].op = "list_indexes"
          /\ AllOk(calls)
          /\ stats = NoStats
    /\ Phase \in {"EMPTY", "INDEXING", "INDEXED", "ALREADY_INDEXED"} =>
          /\ indexExists
          /\ Len(calls) >= SetupCalls
          /\ calls[SetupCalls].op = "describe"
          /\ calls[SetupCalls].ok
          /\ stats = total_vector_count(storeAtStart)
    /\ (calls # << >> /\ calls[Len(calls)].op \in IndexingCalls) =>
          /\ Len(calls) > SetupCalls
          /\ calls[SetupCalls].op = "describe"
          /\ calls[SetupCalls].ok
          /\ stats = 0
    /\ Phase = "ALREADY_INDEXED" =>
          /\ stats > 0
          /\ Len(calls) = SetupCalls
          /\ store = storeAtStart
    /\ Phase = "INDEXED" => storeAtStart = EmptyStore

\* a run moves along the life cycle, or ends; it reaches INDEXED from the
\* upsert of the last batch (or with no chunk at all)
PhaseStep ==
    /\ Phase' # Phase =>
          \/ <<Phase, Phase'>> \in PhaseSteps
          \/ Phase' = "DOWN"
    /\ (Phase = "INDEXING" /\ Phase' = "INDEXED") =>
          \/ documents = << >> /\ Len(calls) = SetupCalls
          \/ /\ documents # << >>
             /\ calls[Len(calls)] =
                   Call("upsert", BatchOf(Len(documents)), TRUE)
             /\ \A k \in 1..Len(documents) : documents[k].id \in DOMAIN store

\* C16: every run of initialize follows UNINITIALIZED, COLLECTION_READY,
\* then EMPTY, INDEXING, INDEXED or else ALREADY_INDEXED: the index exists
\* before describe, describe has answered before any embedding or upsert,
\* a run that succeeds ends in one of the two final phases, and INDEXED
\* comes after the upsert of the last batch
InitializeFollowsLifeCycle ==
    /\ []PhaseHolds
    /\ [][PhaseStep]_vars

\* C16 witness: a run that created the index has reached INDEXED through
\* more than two batches
CreatedAndIndexed ==
    /\ Phase = "INDEXED"
    /\ calls[2].op = "create_index"
    /\ Len(calls) > SetupCalls + 2 * batch_size

(***************************************************************************)
(* Properties of a restart after a failed indexing run                     *)
(***************************************************************************)
\* C17 as stated: after a failure during the first batch the collection is
\* non-empty, and the process started next finds it ALREADY_INDEXED and
\* does not index
FirstBatchFailureLooksIndexed ==
    previous = "first_batch" =>
        /\ storeAtStart # EmptyStore
        /\ Phase \notin {"EMPTY", "INDEXING", "INDEXED"}

\* C17, amended: after a failure during the first batch (an embedding that
\* fails, or the upsert rejected) the collection is still empty and the
\* process started next indexes again; after a failure during a later batch
\* the collection is non-empty and incomplete and the process started next
\* finds it ALREADY_INDEXED and does not index
FailedBatchDecidesRestart ==
    /\ previous = "first_batch" =>
          /\ storeAtStart = EmptyStore
          /\ stats \in {NoStats, 0}
          /\ Phase # "ALREADY_INDEXED"
    /\ previous = "later_batch" =>
          /\ total_vector_count(storeAtStart) >= batch_size
          /\ pc = "init" =>
                total_vector_count(storeAtStart) < TotalChunks[corpus]
          /\ stats = NoStats \/ stats > 0
          /\ Phase \notin {"EMPTY", "INDEXING", "INDEXED"}
          /\ store = storeAtStart
          /\ Len(calls) <= SetupCalls

\* C17 witness: the process started after a failure in the first batch of
\* a corpus of several batches has indexed it all
IndexedAfterFirstBatchFailure ==
    /\ previous = "first_batch"
    /\ Phase = "INDEXED"
    /\ total_vector_count(store) > 2 * batch_size

\* C18: whenever a request is about to query the store, the collection
\* holds the records of all the corpus's chunks (none when the corpus has no
\* chunk), never only some of them
ServedOnlyWhenComplete ==
    \A t \in tasks :
        qpc[t] = "search" =>
            total_vector_count(store) = TotalChunks[corpus]

(***************************************************************************)
(* Properties of chunk ids                                                 *)
(***************************************************************************)
\* C19: two chunks of eligible files that differ in file name or in chunk
\* index get different ids, so upserting the second leaves the record of
\* the first in place
ChunkIdsAreUnique ==
    (id_pc = "returned" /\ id_a # id_b) =>
        /\ Eligible(id_a.name) /\ Eligible(id_b.name)
        /\ ChunkId(id_a.name, id_a.index) # ChunkId(id_b.name, id_b.index)
        /\ Cardinality(DOMAIN id_store) = 2
        /\ \A d \in {id_a, id_b} :
              LET id == ChunkId(d.name, d.index)
              IN  /\ id \in DOMAIN id_store
                  /\ id_store[id].metadata.source = d.name
                  /\ id_store[id].metadata.chunk_index = d.index

\* C19 witness: chunk 10 of a.txt_1.txt and chunk 1 of a.txt, whose ids
\* share the beginning a.txt_1, are both in the store
LookAlikeIdsBothStored ==
    /\ id_pc = "returned"
    /\ id_a = [name |-> <<"a">> \o txt \o <<"_", "1">> \o txt, index |-> 10]
    /\ id_b = [name |-> <<"a">> \o txt, index |-> 1]
    /\ Cardinality(DOMAIN id_store) = 2

(***************************************************************************)
(* Properties of the store during and after indexing                       *)
(***************************************************************************)
\* the record index_documents writes for one entry of documents
RecordOf(doc) ==
    [values |-> Vector(doc).values, metadata |-> Vector(doc).metadata]

\* C20: during and after an indexing run that started on an empty
\* collection, aborted or not, the store holds exactly the records of the
\* run's first k batches, for the k batches upserted so far; a batch's
\* records appear together, after its last embedding, so an embedding that
\* fails in batch j leaves (j - 1) * 100 records
WholeBatchPrefix ==
    /\ (stats = 0 /\ (pc = "indexing" \/ IndexingStopped)) =>
          LET n == Min(i, Len(documents))
          IN  /\ i % batch_size = 0
              /\ DOMAIN store = {documents[d].id : d \in 1..n}
              /\ \A d \in 1..n :
                    store[documents[d].id] = RecordOf(documents[d])
              /\ (IndexingStopped /\ error = "embed") =>
                    /\ ~calls[Len(calls)].ok
                    /\ total_vector_count(store) =
                          (calls[Len(calls)].batch - 1) * batch_size
                    /\ BatchOf(calls[Len(calls)].item)
                          = calls[Len(calls)].batch
    /\ Phase = "INDEXED" =>
          LET n == total_vector_count(store)
          IN  Len(calls) - SetupCalls
                  = n + (n + batch_size - 1) \div batch_size

\* C20 witness: the embedding of a chunk inside the third batch failed and
\* the store holds the two batches before it
FailedInsideThirdBatch ==
    /\ IndexingStopped
    /\ error = "embed"
    /\ calls[Len(calls)].batch = 3
    /\ calls[Len(calls)].item > 2 * batch_size + 1
    /\ total_vector_count(store) = 2 * batch_size

(***************************************************************************)
(* Properties of chunk_text                                                *)
(***************************************************************************)
\* the words of a text read left to right: cur is the word being read,
\* acc the words already ended by whitespace
RECURSIVE ScanWords(_, _, _, _)
ScanWords(text, k, cur, acc) ==
    LET flushed == IF cur = << >> THEN acc ELSE Append(acc, cur)
    IN  IF k > Len(text) THEN flushed
        ELSE IF IsSpace(text[k]) THEN ScanWords(text, k + 1, << >>, flushed)
             ELSE ScanWords(text, k + 1, Append(cur, text[k]), acc)

RefWords(text) == ScanWords(text, 1, << >>, << >>)

RECURSIVE Flatten(_)
Flatten(seqs) == IF seqs = << >> THEN << >> ELSE Head(seqs) \o Flatten(Tail(seqs))

HasWord(text) == \E j \in 1..Len(text) : ~IsSpace(text[j])

\* C4: for every text and every chunk_size >= 1, the segments chunk_text
\* returns, each split on whitespace and concatenated in order, are the
\* words of the text in order, and no segment holds more than chunk_size words
ChunksKeepTheWords ==
    ct_pc = "returned" =>
        /\ Flatten([k \in 1..Len(ct_out) |-> RefWords(ct_out[k])])
               = RefWords(ct_text)
        /\ \A k \in 1..Len(ct_out) : Len(RefWords(ct_out[k])) <= ct_size

\* C4 witness: a text with a run of two whitespace characters and more
\* words than a segment may hold has been chunked into several segments
ChunkedIntoSeveral ==
    /\ ct_pc = "returned"
    /\ Len(ct_out) >= 2
    /\ Len(RefWords(ct_text)) > ct_size
    /\ \E j \in 1..(Len(ct_text) - 1) :
           IsSpace(ct_text[j]) /\ IsSpace(ct_text[j + 1])

\* C5 as stated: every text of length >= 1, whitespace-only texts included,
\* yields a non-empty sequence of non-empty segments
NonEmptyTextHasChunk ==
    (ct_pc = "returned" /\ Len(ct_text) >= 1) =>
        /\ ct_out # << >>
        /\ \A k \in 1..Len(ct_out) : ct_out[k] # << >>

\* C5 amended: a text holding at least one non-whitespace character yields
\* a non-empty sequence, every returned segment is non-empty, and a text
\* made only of whitespace yields the empty sequence
TextWithAWordHasChunk ==
    ct_pc = "returned" =>
        /\ HasWord(ct_text) => ct_out # << >>
        /\ \A k \in 1..Len(ct_out) : ct_out[k] # << >>
        /\ ~HasWord(ct_text) => ct_out = << >>

\* C5 witness: a text that starts and ends with whitespace and holds a word
\* has been chunked
PaddedWordChunked ==
    /\ ct_pc = "returned"
    /\ Len(ct_text) >= 3
    /\ IsSpace(ct_text[1])
    /\ IsSpace(ct_text[Len(ct_text)])
    /\ HasWord(ct_text)
    /\ ct_out # << >>
=============================================================================
